---- MODULE Spec2Model ----
(***************************************************************************)
(* Model of the deferred loan-scheme indexer (SetDeferredLoanSchemeIndexer) *)
(* and of the vault read-model builder (LoanVaultService).                  *)
(***************************************************************************)
EXTENDS Integers, Sequences, FiniteSets, TLC

VARIABLES
  loanSchemeMapper,          \* LoanScheme table: identifier -> current record
  loanSchemeHistoryMapper,   \* LoanSchemeHistory table: <<identifier, height>> -> record
  deferredLoanSchemeMapper,  \* DeferredLoanScheme table: identifier -> pending record
  tip,                       \* height of the last block whose index run completed
  chain,                     \* the blocks above the base, oldest first, each with the tables before its index run
  pending,                   \* the block whose index run was interrupted and is not yet committed, or None
  last,                      \* the last hook invocation: its name, block and outcome
  pre,                       \* the LoanScheme and DeferredLoanScheme tables before the last hook invocation
  log,                       \* the mapper writes made by the last hook invocation, in order
  forwardOnly,               \* TRUE while no block was rolled back and no index run was interrupted
  defaultLoanSchemeMapper,   \* DefaultLoanScheme table: the registered default scheme, or None
  request,                   \* the last read-model request: operation, arguments, the node's reply
  response                   \* what the caller of the last read-model request received

indexerVars == <<loanSchemeMapper, loanSchemeHistoryMapper, deferredLoanSchemeMapper,
                 tip, chain, pending, last, pre, log, forwardOnly>>

vars == <<indexerVars, defaultLoanSchemeMapper, request, response>>

\* "absent": an undefined result, no error, no pending block
None == [none |-> TRUE]

\* ---------------------------------------------------------------- bounds

QueryLimit == 100
MaxExtra == 2
MaxBlocks == 3
MaxTxns == 2

NumIds == QueryLimit + MaxExtra
Ids == 1..NumIds
TxnIds == {1, 2}
PastHeights == {1, 2}
BaseHeight == CHOOSE h \in PastHeights : \A g \in PastHeights : g <= h
MaxHeight == BaseHeight + MaxBlocks
NewHeights == (BaseHeight + 1)..MaxHeight

\* ---------------------------------------------------------------- mappers

EmptyTable == [k \in {} |-> None]

MapperGet(table, key) ==
  IF key \in DOMAIN table THEN table[key] ELSE None

MapperPut(table, key, value) ==
  [k \in DOMAIN table \cup {key} |-> IF k = key THEN value ELSE table[k]]

MapperDelete(table, key) ==
  [k \in DOMAIN table \ {key} |-> table[k]]

Min(a, b) == IF a < b THEN a ELSE b

Take(s, n) == SubSeq(s, 1, Min(Len(s), n))

\* The DeferredLoanScheme table is kept as the sequence of its records in key
\* order, which is the order query scans it in.
DeferredIds(table) == {table[i].id : i \in DOMAIN table}

DeferredGet(table, id) ==
  IF id \in DeferredIds(table)
  THEN table[CHOOSE i \in DOMAIN table : table[i].id = id]
  ELSE None

\* deferredLoanSchemeMapper.query(limit): the first `limit` entries in key order
DeferredQuery(table, limit) == Take(table, limit)

DeferredPut(table, value) ==
  SelectSeq(table, LAMBDA e : e.id < value.id) \o <<value>>
    \o SelectSeq(table, LAMBDA e : e.id > value.id)

DeferredDelete(table, ids) == SelectSeq(table, LAMBDA e : e.id \notin ids)

\* loanSchemeHistoryMapper.query(id, limit): the records of id, most recent first
HistoryQuery(table, id, limit) ==
  LET hs == {k[2] : k \in {x \in DOMAIN table : x[1] = id}}
      nth(i) == CHOOSE h \in hs : Cardinality({g \in hs : g >= h}) = i
  IN  [i \in 1..Min(limit, Cardinality(hs)) |-> table[<<id, nth(i)>>]]

\* ---------------------------------------------------------------- errors

NotFoundIndexerError(type, id) ==
  [name |-> "NotFoundIndexerError", action |-> "index", type |-> type, id |-> id]

Write(mapper, op, key) == [mapper |-> mapper, op |-> op, key |-> key]

Tables(ls, dls) == [ls |-> ls, dls |-> dls, log |-> <<>>, err |-> None]

\* ---------------------------------------------------------------- index

DueStrict(height, each) == height > each.activateAfterBlock

\* Due at the activation height only
DueExactly(height, each) == height = each.activateAfterBlock

\* new BigNumber(block.height).gte(each.activateAfterBlock)
Due(height, each) == height >= each.activateAfterBlock

ScanAll(dls) == dls

\* const list = await this.deferredLoanSchemeMapper.query(100)
Scan(dls) == DeferredQuery(dls, QueryLimit)

PutLoanScheme(t, value) ==
  [t EXCEPT !.ls = MapperPut(@, value.id, value),
            !.log = Append(@, Write("loanSchemeMapper", "put", value.id))]

PutDeferred(t, value) ==
  [t EXCEPT !.dls = DeferredPut(@, value),
            !.log = Append(@, Write("deferredLoanSchemeMapper", "put", value.id))]

\* The budget of a run that is not interrupted.
NoInterrupt == 0 - 1

\* An index run that writes the due entries to the LoanScheme table and
\* leaves them deferred.
indexKeepingDeferred(block, t, budget) ==
  LET list == Scan(t.dls)
      due == SelectSeq(list, LAMBDA each : Due(block.height, each))
      putIds == {due[i].id : i \in DOMAIN due}
  IN  [ls |-> [id \in DOMAIN t.ls \cup putIds |->
                 IF id \in putIds THEN DeferredGet(due, id) ELSE t.ls[id]],
       dls |-> t.dls,
       log |-> t.log \o [i \in DOMAIN due |-> Write("loanSchemeMapper", "put", due[i].id)],
       err |-> t.err]

\* index(block), cut after `budget` mapper writes (NoInterrupt: the run is
\* complete).  The loop handles the scanned entries that are due, in scan
\* order, with a put and then a delete each: after `budget` writes the first
\* (budget + 1) \div 2 of them are put and the first budget \div 2 deleted.
index(block, t, budget) ==
  LET list == Scan(t.dls)
      due == SelectSeq(list, LAMBDA each : Due(block.height, each))
      writes == IF budget = NoInterrupt THEN 2 * Len(due) ELSE Min(budget, 2 * Len(due))
      puts == (writes + 1) \div 2
      deletes == writes \div 2
      putIds == {due[i].id : i \in 1..puts}
      deleteIds == {due[i].id : i \in 1..deletes}
  IN  [ls |-> [id \in DOMAIN t.ls \cup putIds |->
                 IF id \in putIds THEN DeferredGet(due, id) ELSE t.ls[id]],
       dls |-> DeferredDelete(t.dls, deleteIds),
       log |-> t.log \o
               [i \in 1..(puts + deletes) |->
                  IF i % 2 = 1
                  THEN Write("loanSchemeMapper", "put", due[(i + 1) \div 2].id)
                  ELSE Write("deferredLoanSchemeMapper", "delete", due[i \div 2].id)],
       err |-> t.err]

\* ---------------------------------------------------------------- invalidate

getPrevLoanScheme(hist, loanSchemeId) ==
  LET histories == HistoryQuery(hist, loanSchemeId, 1)
  IN  IF Len(histories) = 0
      THEN [err |-> NotFoundIndexerError("LoanSchemeHistory", loanSchemeId), value |-> None]
      ELSE [err |-> None, value |-> histories[1]]

getCurrentLoanScheme(ls, loanSchemeId) ==
  LET prevDeferredLoanScheme == MapperGet(ls, loanSchemeId)
  IN  IF prevDeferredLoanScheme = None
      THEN [err |-> NotFoundIndexerError("LoanScheme", loanSchemeId), value |-> None]
      ELSE [err |-> None, value |-> prevDeferredLoanScheme]

\* A loop that passes over a transaction it cannot restore.
RECURSIVE InvalidateLoopSkipping(_, _, _, _)
InvalidateLoopSkipping(txns, i, hist, t) ==
  IF i > Len(txns) THEN t
  ELSE LET identifier == txns[i].identifier
           prevDeferredLoanScheme == getCurrentLoanScheme(t.ls, identifier)
           prevLoanScheme == getPrevLoanScheme(hist, identifier)
       IN  IF prevDeferredLoanScheme.err # None \/ prevLoanScheme.err # None
           THEN InvalidateLoopSkipping(txns, i + 1, hist, t)
           ELSE InvalidateLoopSkipping(txns, i + 1, hist,
                  PutLoanScheme(PutDeferred(t, prevDeferredLoanScheme.value),
                                prevLoanScheme.value))

\* A loop that re-inserts the history record as the deferred entry and keeps
\* the current record as the current one.
RECURSIVE InvalidateLoopSwapped(_, _, _, _)
InvalidateLoopSwapped(txns, i, hist, t) ==
  IF i > Len(txns) THEN t
  ELSE LET identifier == txns[i].identifier
           prevDeferredLoanScheme == getCurrentLoanScheme(t.ls, identifier)
           prevLoanScheme == getPrevLoanScheme(hist, identifier)
       IN  IF prevDeferredLoanScheme.err # None
           THEN [t EXCEPT !.err = prevDeferredLoanScheme.err]
           ELSE IF prevLoanScheme.err # None
           THEN [t EXCEPT !.err = prevLoanScheme.err]
           ELSE InvalidateLoopSwapped(txns, i + 1, hist,
                  PutLoanScheme(PutDeferred(t, prevLoanScheme.value),
                                prevDeferredLoanScheme.value))

\* for (const { dftx: { data } } of txns) { ... }, from transaction i on
RECURSIVE InvalidateLoop(_, _, _, _)
InvalidateLoop(txns, i, hist, t) ==
  IF i > Len(txns) THEN t
  ELSE LET identifier == txns[i].identifier
           prevDeferredLoanScheme == getCurrentLoanScheme(t.ls, identifier)
           prevLoanScheme == getPrevLoanScheme(hist, identifier)
       IN  IF prevDeferredLoanScheme.err # None
           THEN [t EXCEPT !.err = prevDeferredLoanScheme.err]
           ELSE IF prevLoanScheme.err # None
           THEN [t EXCEPT !.err = prevLoanScheme.err]
           ELSE InvalidateLoop(txns, i + 1, hist,
                  PutLoanScheme(PutDeferred(t, prevDeferredLoanScheme.value),
                                prevLoanScheme.value))

invalidate(block, txns, hist, t) == InvalidateLoop(txns, 1, hist, t)

\* ---------------------------------------------------------------- the block host

\* The matching transactions of a block: each names the scheme identifier it sets.
Txn(id) == [identifier |-> id]

\* A block holds up to MaxTxns of them; two may name the same identifier.
BlockTxns == UNION {[1..n -> {Txn(id) : id \in TxnIds}] : n \in 0..MaxTxns}

Current == Tables(loanSchemeMapper, deferredLoanSchemeMapper)

Snapshot == [ls |-> loanSchemeMapper, dls |-> deferredLoanSchemeMapper]

Halted == last.err # None

CurrentRecord(id) == [id |-> id, rate |-> 1, activateAfterBlock |-> 0]
DeferredRecord(id, h) == [id |-> id, rate |-> 2, activateAfterBlock |-> h]
HistoryRecord(id, h) == [id |-> id, height |-> h, rate |-> 10 + h, activateAfterBlock |-> 0]

\* A history of depth d holds the records of the d most recent past heights.
HistoryOf(depth) ==
  LET keys == {k \in TxnIds \X PastHeights : k[2] > BaseHeight - depth[k[1]]}
  IN  [k \in keys |-> HistoryRecord(k[1], k[2])]

\* Few schemes, in every combination of current, deferred and recorded.
InitFew ==
  \E present \in SUBSET TxnIds, defer \in [TxnIds -> {0} \cup NewHeights],
     depth \in [TxnIds -> 0..BaseHeight] :
    /\ loanSchemeMapper = [i \in present |-> CurrentRecord(i)]
    /\ deferredLoanSchemeMapper =
         SelectSeq([i \in 1..Cardinality(TxnIds) |-> DeferredRecord(i, defer[i])],
                   LAMBDA e : e.activateAfterBlock # 0)
    /\ loanSchemeHistoryMapper = HistoryOf(depth)

\* A burst of deferred schemes around the scan limit: the first QueryLimit of
\* them are due at one height, the others at another.
InitBurst ==
  \E n \in QueryLimit..NumIds, front \in NewHeights \cup {MaxHeight + 1}, back \in NewHeights :
    /\ loanSchemeMapper = [i \in TxnIds |-> CurrentRecord(i)]
    /\ deferredLoanSchemeMapper =
         [i \in 1..n |-> DeferredRecord(i, IF i <= QueryLimit THEN front ELSE back)]
    /\ loanSchemeHistoryMapper = HistoryOf([i \in TxnIds |-> 1])

IndexerStart ==
  /\ tip = BaseHeight
  /\ chain = <<>>
  /\ pending = None
  /\ last = [op |-> "none", block |-> None, txns |-> <<>>, before |-> None,
              completed |-> TRUE, retry |-> FALSE, err |-> None]
  /\ pre = Snapshot
  /\ log = <<>>
  /\ forwardOnly = TRUE

Init ==
  /\ InitFew \/ InitBurst
  /\ IndexerStart
  /\ defaultLoanSchemeMapper = None
  /\ request = None
  /\ response = None

\* The host forward-processes the next block: the index hook runs to its end
\* and the block is committed.  A block left pending by an interrupted run is
\* processed again.
IndexBlock ==
  /\ ~Halted
  /\ last.op # "invalidate"
  /\ LET block == [height |-> tip + 1]
         before == IF pending = None THEN Snapshot ELSE pending.before
         t == index(block, Current, NoInterrupt)
     IN  /\ loanSchemeMapper' = t.ls
         /\ deferredLoanSchemeMapper' = t.dls
         /\ log' = t.log
         /\ tip' = block.height
         /\ chain' = Append(chain, [block |-> block, before |-> before])
         /\ last' = [op |-> "index", block |-> block, txns |-> <<>>, before |-> before,
                      completed |-> TRUE, retry |-> pending # None, err |-> None]
  /\ pending' = None
  /\ pre' = Snapshot
  /\ UNCHANGED <<loanSchemeHistoryMapper, forwardOnly, defaultLoanSchemeMapper, request, response>>

Index == tip < MaxHeight /\ IndexBlock

\* The writes after which a run of n writes may stop: the first few and the last.
InterruptPoints(n) == {k \in 0..n : k \in 0..3 \/ k \in (n - 1)..n}

\* The process stops during the index run of the next block, after `budget`
\* of its writes (possibly all of them), before the block is committed.
IndexInterrupted ==
  /\ ~Halted
  /\ tip < MaxHeight
  /\ pending = None
  /\ LET block == [height |-> tip + 1]
         full == index(block, Current, NoInterrupt)
     IN  \E budget \in InterruptPoints(Len(full.log)) :
           LET t == index(block, Current, budget)
           IN  /\ loanSchemeMapper' = t.ls
               /\ deferredLoanSchemeMapper' = t.dls
               /\ log' = t.log
               /\ pending' = [block |-> block, before |-> Snapshot]
               /\ last' = [op |-> "index", block |-> block, txns |-> <<>>,
                            before |-> Snapshot, completed |-> FALSE,
                            retry |-> FALSE, err |-> None]
  /\ pre' = Snapshot
  /\ forwardOnly' = FALSE
  /\ UNCHANGED <<loanSchemeHistoryMapper, tip, chain, defaultLoanSchemeMapper, request, response>>

\* The host disconnects the block it has just forward-processed: the
\* invalidate hook runs over the block's matching transactions.  A
\* NotFoundIndexerError halts the host.  The blocks that replace a
\* disconnected block are not followed.
Invalidate ==
  \E txns \in BlockTxns :
    /\ ~Halted
    /\ pending = None
    /\ last.op = "index"
    /\ chain # <<>>
    /\ LET top == chain[Len(chain)]
           t == invalidate(top.block, txns, loanSchemeHistoryMapper, Current)
       IN  /\ loanSchemeMapper' = t.ls
           /\ deferredLoanSchemeMapper' = t.dls
           /\ log' = t.log
           /\ last' = [op |-> "invalidate", block |-> top.block, txns |-> txns,
                        before |-> top.before, completed |-> t.err = None,
                        retry |-> FALSE, err |-> t.err]
           /\ IF t.err = None
              THEN /\ tip' = tip - 1
                   /\ chain' = SubSeq(chain, 1, Len(chain) - 1)
              ELSE UNCHANGED <<tip, chain>>
    /\ pre' = Snapshot
    /\ forwardOnly' = FALSE
    /\ UNCHANGED <<loanSchemeHistoryMapper, pending, defaultLoanSchemeMapper, request, response>>

Next == Index \/ Invalidate

Spec == Init /\ [][Next]_vars

\* Forward processing with restarts: an index run may be interrupted and the
\* block processed again.
RestartNext == Index \/ IndexInterrupted

RestartSpec == Init /\ [][RestartNext]_vars

\* Forward processing that goes on: the host forward-processes every block of
\* a chain that keeps growing past the height at which every deferred scheme
\* is due, for as many blocks as the scan limit needs to pass over them all.
DrainBlocks == (NumIds + QueryLimit - 1) \div QueryLimit

LiveHeight == MaxHeight + DrainBlocks

IndexOnward == tip < LiveHeight /\ IndexBlock

\* The chain grows: the step of tip that every run of IndexOnward makes, and
\* no other step.  The host keeps handing the next block to the indexer.
BlockArrives ==
  /\ tip < LiveHeight
  /\ ~Halted
  /\ last.op # "invalidate"
  /\ tip' = tip + 1

LiveSpec == Init /\ [][IndexOnward]_vars /\ WF_tip(BlockArrives)

\* ================================================================ LoanVaultService

\* Character strings that the code takes apart are sequences of characters.
Repeat(c, n) == [i \in 1..n |-> c]

VaultIdLength == 64

Outcome(errs, value) == [errs |-> errs, value |-> value]
Ok(value) == Outcome({}, value)
Throw(e) == Outcome({e}, None)

\* await a; then b: the first failure is the one thrown
Then(a, b) == IF a.errs # {} THEN Outcome(a.errs, None) ELSE b

\* Promise.all: the values in the order of the promises; when promises
\* reject, the rejection of whichever rejects first.
PromiseAll(outcomes) ==
  LET errs == UNION {outcomes[i].errs : i \in DOMAIN outcomes}
  IN  IF errs # {} THEN Outcome(errs, None)
      ELSE Ok([i \in DOMAIN outcomes |-> outcomes[i].value])

NotFoundException(message) == [exception |-> "NotFoundException", message |-> message]
ConflictException(message) == [exception |-> "ConflictException", message |-> message]
BadRequestException(cause) == [exception |-> "BadRequestException", cause |-> cause]
TypeError == [exception |-> "TypeError"]
RpcApiError(message) == [exception |-> "RpcApiError", payload |-> [message |-> message]]
ClientApiError == [exception |-> "ClientApiError"]

\* ---------------------------------------------------------------- tokens

Digits == <<"0", "1", "2", "3", "4", "5", "6", "7", "8", "9">>

IsDigit(c) == \E d \in DOMAIN Digits : Digits[d] = c

DigitValue(c) == (CHOOSE d \in DOMAIN Digits : Digits[d] = c) - 1

NaN == [nan |-> TRUE, value |-> 0]

\* Number.parseInt / parseInt on a string of letters and digits: the value of
\* the leading digits, NaN when there is none.
RECURSIVE ParseDigits(_, _, _)
ParseDigits(str, i, acc) ==
  IF i > Len(str) \/ ~IsDigit(str[i]) THEN acc
  ELSE ParseDigits(str, i + 1, 10 * acc + DigitValue(str[i]))

ParseInt(str) ==
  IF Len(str) = 0 \/ ~IsDigit(str[1]) THEN NaN
  ELSE [nan |-> FALSE, value |-> ParseDigits(str, 1, 0)]

TokenInfo(symbol, isDAT) ==
  [symbol |-> symbol, symbolKey |-> symbol, name |-> symbol, isDAT |-> isDAT]

\* deFiDCache.batchTokenInfoBySymbol: symbol -> { id: TokenInfo }, no entry
\* for a symbol the registry does not know
TokenRegistry ==
  [symbol \in {"DFI", "BTC", "TSLA", "DUSD"} |->
     CASE symbol = "DFI"  -> [id |-> <<"0">>, info |-> TokenInfo(symbol, TRUE)]
       [] symbol = "BTC"  -> [id |-> <<"1">>, info |-> TokenInfo(symbol, TRUE)]
       [] symbol = "TSLA" -> [id |-> <<"3">>, info |-> TokenInfo(symbol, TRUE)]
       [] symbol = "DUSD" -> [id |-> <<"1", "0">>, info |-> TokenInfo(symbol, TRUE)]]

batchTokenInfoBySymbol(symbols) ==
  [symbol \in {symbols[i] : i \in DOMAIN symbols} \cap DOMAIN TokenRegistry |->
     TokenRegistry[symbol]]

\* activePriceMapper.query(`${symbol}-USD`, 1): zero or one record
ActivePriceQuery(key, limit) ==
  IF key = <<"BTC", "-USD">> \/ key = <<"TSLA", "-USD">>
  THEN <<[key |-> key, active |-> 1]>>
  ELSE <<>>

parseDisplaySymbol(tokenInfo) ==
  IF tokenInfo.isDAT /\ tokenInfo.symbol # "DFI"
  THEN <<"d", tokenInfo.symbol>>
  ELSE <<tokenInfo.symbol>>

mapLoanVaultTokenAmount(id, tokenInfo, amount, activePrice) ==
  [id |-> id,
   amount |-> amount,
   symbol |-> tokenInfo.symbol,
   symbolKey |-> tokenInfo.symbolKey,
   name |-> tokenInfo.name,
   displaySymbol |-> parseDisplaySymbol(tokenInfo),
   activePrice |-> activePrice]

\* A string that may be undefined is a record of its text.
String(text) == [text |-> text]

\* An amount "<amount>@<symbol>" is the string of its lexemes.
Amount(amount, symbol) == String(<<amount, "@", symbol>>)

\* value.split('@')
Split(value) == SelectSeq(value.text, LAMBDA x : x # "@")

\* ---------------------------------------------------------------- Array.prototype.sort

\* The comparator a => Number.parseInt(a.id): it reads its first argument
\* only; sort takes a NaN result for +0.
ToOrder(n) == IF n.nan THEN 0 ELSE n.value

compareFn(a, b) == ToOrder(ParseInt(a.id))

Reverse(arr) == [i \in DOMAIN arr |-> arr[Len(arr) + 1 - i]]

\* The sort of the runtime for a short array: the run the array begins with
\* is found (and reversed when descending), then the elements after it are
\* inserted by binary search.
RunIsDescending(arr) == compareFn(arr[2], arr[1]) < 0

RunContinues(arr, idx) ==
  LET order == compareFn(arr[idx], arr[idx - 1])
  IN  IF RunIsDescending(arr) THEN order < 0 ELSE order >= 0

CountRun(arr) ==
  CHOOSE r \in 2..Len(arr) :
    /\ \A idx \in 3..r : RunContinues(arr, idx)
    /\ r = Len(arr) \/ ~RunContinues(arr, r + 1)

RECURSIVE BinarySearch(_, _, _, _)
BinarySearch(arr, pivot, left, right) ==
  IF left >= right THEN left
  ELSE LET mid == left + ((right - left) \div 2)
       IN  IF compareFn(pivot, arr[mid]) < 0
           THEN BinarySearch(arr, pivot, left, mid)
           ELSE BinarySearch(arr, pivot, mid + 1, right)

\* arr with the element at `start` moved to `pos`
Insert(arr, pivot, pos, start) ==
  [i \in DOMAIN arr |->
     IF i < pos \/ i > start THEN arr[i]
     ELSE IF i = pos THEN pivot ELSE arr[i - 1]]

RECURSIVE InsertFrom(_, _)
InsertFrom(arr, start) ==
  IF start > Len(arr) THEN arr
  ELSE InsertFrom(Insert(arr, arr[start], BinarySearch(arr, arr[start], 1, start), start),
                  start + 1)

SortFrom(arr, run) ==
  InsertFrom((IF RunIsDescending(arr) THEN Reverse(SubSeq(arr, 1, run))
                                       ELSE SubSeq(arr, 1, run))
               \o SubSeq(arr, run + 1, Len(arr)),
             run + 1)

ArraySort(arr) == IF Len(arr) < 2 THEN arr ELSE SortFrom(arr, CountRun(arr))

\* ---------------------------------------------------------------- mapping

\* the callback of tokenAmounts.map(async ([amount, symbol]) => ...)
mappedItem(pair, tokenInfos) ==
  LET amount == pair[1]
      symbol == pair[2]
  IN  IF symbol \notin DOMAIN tokenInfos
      THEN Throw(ConflictException("unable to find token"))
      ELSE LET result == tokenInfos[symbol]
               activePrice == ActivePriceQuery(<<symbol, "-USD">>, 1)
           IN  Ok(mapLoanVaultTokenAmount(result.id, result.info, amount,
                    IF Len(activePrice) = 0 THEN None ELSE activePrice[1]))

\* (await Promise.all(mappedItems)).sort(a => Number.parseInt(a.id))
SortAll(all) == IF all.errs # {} THEN all ELSE Ok(ArraySort(all.value))

mappedItems(tokenAmounts) ==
  [i \in DOMAIN tokenAmounts |->
     mappedItem(tokenAmounts[i],
                batchTokenInfoBySymbol([j \in DOMAIN tokenAmounts |-> tokenAmounts[j][2]]))]

\* items is an array here: the node leaves no amount list undefined.
mapTokenAmounts(items) ==
  IF Len(items) = 0 THEN Ok(<<>>)
  ELSE IF \E i \in DOMAIN items : items[i] = None THEN Throw(TypeError)
  ELSE SortAll(PromiseAll(mappedItems([i \in DOMAIN items |-> Split(items[i])])))

\* the callback of batches.map(async batch => ...), its two awaits given
LoanVaultLiquidationBatch(batch, collaterals, loan) ==
  Then(collaterals, Then(loan,
    Ok([index |-> batch.index,
        collaterals |-> collaterals.value,
        loan |-> IF loan.errs = {} /\ Len(loan.value) > 0
                 THEN loan.value[1] ELSE None])))

mapLiquidationBatches(batches) ==
  IF Len(batches) = 0 THEN Ok(<<>>)
  ELSE PromiseAll([i \in DOMAIN batches |->
                     LoanVaultLiquidationBatch(batches[i],
                       mapTokenAmounts(batches[i].collaterals),
                       mapTokenAmounts(<<batches[i].loan>>))])

VaultStates == {"unknown", "active", "frozen", "inLiquidation", "mayLiquidate"}

\* mapLoanVaultState with the case of MAY_LIQUIDATE falling through to the
\* case of IN_LIQUIDATION
mapLoanVaultStateFallthrough(state) ==
  CASE state = "unknown" -> "UNKNOWN"
    [] state = "active" -> "ACTIVE"
    [] state = "frozen" -> "FROZEN"
    [] state = "inLiquidation" -> "IN_LIQUIDATION"
    [] state = "mayLiquidate" -> "IN_LIQUIDATION"

mapLoanVaultState(state) ==
  CASE state = "unknown" -> "UNKNOWN"
    [] state = "active" -> "ACTIVE"
    [] state = "frozen" -> "FROZEN"
    [] state = "inLiquidation" -> "IN_LIQUIDATION"
    [] state = "mayLiquidate" -> "MAY_LIQUIDATE"

\* WithDefault flagging every scheme as the default one
WithDefaultAlways(loanScheme, defaultScheme) ==
  [k \in DOMAIN loanScheme \cup {"default"} |->
     IF k = "default" THEN TRUE ELSE loanScheme[k]]

\* { ...loanScheme, default: loanScheme.id === defaultScheme.id }
WithDefault(loanScheme, defaultScheme) ==
  [k \in DOMAIN loanScheme \cup {"default"} |->
     IF k = "default" THEN loanScheme.id = defaultScheme.id ELSE loanScheme[k]]

\* BigNumber.toFixed(): the decimal notation of the number
toFixed(n) == <<"decimal", n>>

\* the object mapLoanAuction returns, its awaits given
LoanVaultLiquidated(data, loanScheme, defaultScheme, batches) ==
  Then(batches,
    Ok([vaultId |-> data.vaultId,
        loanScheme |-> WithDefault(loanScheme, defaultScheme),
        ownerAddress |-> data.ownerAddress,
        state |-> "IN_LIQUIDATION",
        batchCount |-> data.batchCount,
        liquidationHeight |-> data.liquidationHeight,
        liquidationPenalty |-> data.liquidationPenalty,
        batches |-> batches.value]))

mapLoanAuction(details, ls, defaultScheme) ==
  IF MapperGet(ls, details.loanSchemeId) = None
  THEN Throw(NotFoundException("unable to find loan scheme"))
  ELSE IF defaultScheme = None
  THEN Throw(NotFoundException("Unable to find default scheme"))
  ELSE LoanVaultLiquidated(details, MapperGet(ls, details.loanSchemeId), defaultScheme,
                           mapLiquidationBatches(details.batches))

\* the object mapLoanVault returns, its awaits given
LoanVaultActive(data, loanScheme, defaultScheme, collateralAmounts, loanAmounts, interestAmounts) ==
  Then(collateralAmounts, Then(loanAmounts, Then(interestAmounts,
    Ok([vaultId |-> data.vaultId,
        loanScheme |-> WithDefault(loanScheme, defaultScheme),
        ownerAddress |-> data.ownerAddress,
        state |-> mapLoanVaultState(data.state),
        informativeRatio |-> toFixed(data.informativeRatio),
        collateralRatio |-> toFixed(data.collateralRatio),
        collateralValue |-> toFixed(data.collateralValue),
        loanValue |-> toFixed(data.loanValue),
        interestValue |-> toFixed(data.interestValue),
        collateralAmounts |-> collateralAmounts.value,
        loanAmounts |-> loanAmounts.value,
        interestAmounts |-> interestAmounts.value]))))

mapLoanVault(details, ls, defaultScheme) ==
  IF details.state = "inLiquidation"
  THEN mapLoanAuction(details, ls, defaultScheme)
  ELSE IF MapperGet(ls, details.loanSchemeId) = None
  THEN Throw(NotFoundException("unable to find loan scheme"))
  ELSE IF defaultScheme = None
  THEN Throw(NotFoundException("Unable to find default scheme"))
  ELSE LoanVaultActive(details, MapperGet(ls, details.loanSchemeId), defaultScheme,
                       mapTokenAmounts(details.collateralAmounts),
                       mapTokenAmounts(details.loanAmounts),
                       mapTokenAmounts(details.interestAmounts))

\* ---------------------------------------------------------------- the node

MaxPage == 2

\* Amount lists (collateral, loan, interest) of an active vault: none, all of
\* registered tokens, one of each naming a symbol the registry lacks, and
\* collaterals given out of token id order.
AmountTriples ==
  { <<<<>>, <<>>, <<>>>>,
    <<<<Amount("1", "BTC")>>, <<Amount("2", "TSLA")>>, <<Amount("3", "TSLA")>>>>,
    <<<<Amount("1", "XYZ")>>, <<Amount("2", "TSLA")>>, <<Amount("3", "TSLA")>>>>,
    <<<<Amount("1", "BTC")>>, <<Amount("2", "XYZ")>>, <<Amount("3", "TSLA")>>>>,
    <<<<Amount("1", "BTC")>>, <<Amount("2", "TSLA")>>, <<Amount("3", "XYZ")>>>>,
    <<<<Amount("5", "TSLA"), Amount("1", "BTC"), Amount("7", "DUSD")>>,
      <<Amount("2", "TSLA")>>, <<>>>> }

VaultActive(vaultId, state, loanSchemeId, amounts) ==
  [vaultId |-> vaultId, loanSchemeId |-> loanSchemeId, ownerAddress |-> "owner",
   state |-> state,
   informativeRatio |-> 0 - 1, collateralRatio |-> 150,
   collateralValue |-> 3, loanValue |-> 2, interestValue |-> 1,
   collateralAmounts |-> amounts[1], loanAmounts |-> amounts[2],
   interestAmounts |-> amounts[3]]

Batch(batchIndex, collaterals, loan) ==
  [index |-> batchIndex, collaterals |-> collaterals, loan |-> loan]

\* Batch lists of a vault in liquidation: none, one batch, two batches, a
\* collateral or a loan naming a symbol the registry lacks, a batch without loan.
BatchLists ==
  { <<>>,
    <<Batch(0, <<Amount("1", "BTC")>>, Amount("2", "TSLA"))>>,
    <<Batch(0, <<Amount("5", "TSLA"), Amount("1", "BTC")>>, Amount("2", "TSLA")),
      Batch(1, <<Amount("1", "DFI")>>, Amount("3", "DUSD"))>>,
    <<Batch(0, <<Amount("1", "BTC")>>, Amount("2", "TSLA")),
      Batch(1, <<Amount("1", "XYZ")>>, Amount("3", "TSLA"))>>,
    <<Batch(0, <<Amount("1", "BTC")>>, Amount("2", "XYZ"))>>,
    <<Batch(0, <<Amount("1", "BTC")>>, Amount("2", "TSLA")),
      Batch(1, <<Amount("1", "BTC")>>, None)>> }

VaultLiquidation(vaultId, loanSchemeId, batches) ==
  [vaultId |-> vaultId, loanSchemeId |-> loanSchemeId, ownerAddress |-> "owner",
   state |-> "inLiquidation",
   liquidationHeight |-> 7, liquidationPenalty |-> 5,
   batchCount |-> Len(batches), batches |-> batches]

\* The raw vaults the node may hold under an id.
RawVaults(vaultId) ==
  {VaultActive(vaultId, state, scheme, amounts) :
     state \in VaultStates \ {"inLiquidation"}, scheme \in TxnIds, amounts \in AmountTriples}
  \cup {VaultLiquidation(vaultId, scheme, batches) : scheme \in TxnIds, batches \in BatchLists}

RawAuctions(vaultId) ==
  {VaultLiquidation(vaultId, scheme, batches) : scheme \in TxnIds, batches \in BatchLists}

\* The raw vaults of the pages of list: active or in liquidation, with and
\* without a symbol the registry lacks.
PageVaults(vaultId) ==
  {v \in RawVaults(vaultId) :
     \/ /\ v.state = "active"
        /\ v.collateralAmounts \in {<<Amount("1", "BTC")>>, <<Amount("1", "XYZ")>>}
        /\ v.loanAmounts = <<Amount("2", "TSLA")>>
        /\ v.interestAmounts = <<Amount("3", "TSLA")>>
     \/ /\ v.state = "inLiquidation"
        /\ Len(v.batches) = 1}

\* The auctions of the pages of listAuction: one or two batches, with and
\* without a symbol the registry lacks.
PageAuctions(vaultId) ==
  {v \in RawAuctions(vaultId) :
     \/ Len(v.batches) = 2 /\ v.batches[2].loan = Amount("3", "DUSD")
     \/ Len(v.batches) = 1}

PageIds == <<Repeat("a", VaultIdLength), Repeat("b", VaultIdLength),
             Repeat("c", VaultIdLength), Repeat("d", VaultIdLength)>>

\* The pages the node may answer a listing of at most `limit` vaults with.
Pages(family, limit) ==
  UNION {{page \in [1..n -> UNION {family[i] : i \in 1..n}] :
            \A i \in 1..n : page[i].vaultId = PageIds[i]} :
         n \in 0..Min(limit, MaxPage)}

VaultNotFoundMessage(id) == <<"Vault <", id, "> not found">>

VaultIdLengthMessage(id) ==
  <<"vaultId must be of length 64 (not ", Len(id), ", for '", id, "')">>

\* What the node may answer getVault(id) with: an id that is not of length 64
\* is rejected; an id of length 64 is unknown or names a vault; any call may
\* fail for another reason.
NodeGetVault(id) ==
  {[err |-> RpcApiError(<<"Internal error">>), vault |-> None],
   [err |-> ClientApiError, vault |-> None]}
  \cup
  (IF Len(id) # VaultIdLength
   THEN {[err |-> RpcApiError(VaultIdLengthMessage(id)), vault |-> None]}
   ELSE {[err |-> RpcApiError(VaultNotFoundMessage(id)), vault |-> None]}
        \cup {[err |-> None, vault |-> v] : v \in RawVaults(id)})

RequestIds ==
  {Repeat("a", VaultIdLength), <<"9", "9", "9">>, <<"a", "b">>, <<"9">>,
   Repeat("a", VaultIdLength + 1)}

\* ---------------------------------------------------------------- requests

\* the catch clause of get
Catch(id, err) ==
  IF /\ err.exception = "RpcApiError"
     /\ \/ err.payload.message = VaultNotFoundMessage(id)
        \/ err.payload.message = VaultIdLengthMessage(<<"9", "9", "9">>)
  THEN NotFoundException("Unable to find vault")
  ELSE BadRequestException(err)

\* try { ... } catch (err) { ... }
TryCatch(id, attempt) ==
  Outcome({Catch(id, err) : err \in attempt.errs}, attempt.value)

get(id, reply, ls, defaultScheme) ==
  TryCatch(id, IF reply.err # None THEN Throw(reply.err)
               ELSE mapLoanVault(reply.vault, ls, defaultScheme))

\* the page size taken as requested
PageSizeUnclamped(size) == size

\* const size = query.size > 30 ? 30 : query.size
PageSize(size) == IF size > 30 THEN 30 ELSE size

\* ApiPagedResponse.of(items, size, nextProvider), nextProvider given as the
\* cursor it makes of each item
ApiPagedResponse(items, size, nextProvider) ==
  [data |-> items,
   page |-> IF Len(items) = size /\ Len(items) > 0
            THEN [next |-> nextProvider[Len(items)]] ELSE None]

listPagination(query) ==
  [start |-> query.next, limit |-> PageSize(query.size)]

\* return ApiPagedResponse.of(items, size, item => item.vaultId)
listResponse(items, size) ==
  Then(items,
    Ok(ApiPagedResponse(items.value, size,
         [i \in DOMAIN items.value |-> items.value[i].vaultId])))

list(query, page, ls, defaultScheme) ==
  listResponse(PromiseAll([i \in DOMAIN page |-> mapLoanVault(page[i], ls, defaultScheme)]),
               PageSize(query.size))

\* String.prototype.substr(start) and substr(start, length)
SubstrFrom(str, start) == String(SubSeq(str.text, start + 1, Len(str.text)))
Substr(str, start, length) ==
  String(SubSeq(str.text, start + 1, Min(Len(str.text), start + length)))

listAuctionPagination(query) ==
  LET next == query.next
      size == PageSize(query.size)
  IN  IF next # None
      THEN LET vaultId == Substr(next, 0, VaultIdLength)
               height == SubstrFrom(next, VaultIdLength)
           IN  [start |-> [vaultId |-> vaultId.text, height |-> ParseInt(height.text)],
                limit |-> size]
      ELSE [limit |-> size]

\* return ApiPagedResponse.of(items, size,
\*   item => `${item.vaultId}${item.liquidationHeight}`)
listAuctionResponse(items, size) ==
  Then(items,
    Ok(ApiPagedResponse(items.value, size,
         [i \in DOMAIN items.value |->
            <<items.value[i].vaultId, items.value[i].liquidationHeight>>])))

listAuction(query, page, ls, defaultScheme) ==
  listAuctionResponse(
    PromiseAll([i \in DOMAIN page |-> mapLoanAuction(page[i], ls, defaultScheme)]),
    PageSize(query.size))

Reply(outcome, e) ==
  IF outcome.errs = {} THEN [status |-> "ok", body |-> outcome.value, error |-> None]
  ELSE [status |-> "error", body |-> None, error |-> e]

Replies(outcome) ==
  IF outcome.errs = {} THEN {Reply(outcome, None)}
  ELSE {Reply(outcome, e) : e \in outcome.errs}

Sizes == {1, 2, 30, 31}

ListCursors == {None, String(Repeat("a", VaultIdLength))}

AuctionCursors ==
  {None,
   String(Repeat("a", VaultIdLength) \o <<"1", "2">>),
   String(Repeat("a", VaultIdLength)),
   String(Repeat("a", VaultIdLength) \o <<"x">>),
   String(<<"a", "b">>)}

\* One request is followed from its arrival to the caller's receipt.
Get ==
  \E id \in RequestIds :
    \E reply \in NodeGetVault(id) :
      /\ request = None
      /\ request' = [op |-> "get", id |-> id, reply |-> reply]
      /\ response' \in Replies(get(id, reply, loanSchemeMapper, defaultLoanSchemeMapper))
      /\ UNCHANGED <<indexerVars, defaultLoanSchemeMapper>>

List ==
  \E size \in Sizes, next \in ListCursors :
    LET query == [size |-> size, next |-> next]
        pagination == listPagination(query)
    IN  \E page \in Pages([i \in DOMAIN PageIds |-> PageVaults(PageIds[i])], pagination.limit) :
          /\ request = None
          /\ request' = [op |-> "list", query |-> query, pagination |-> pagination,
                         reply |-> page]
          /\ response' \in Replies(list(query, page, loanSchemeMapper, defaultLoanSchemeMapper))
          /\ UNCHANGED <<indexerVars, defaultLoanSchemeMapper>>

ListAuction ==
  \E size \in Sizes, next \in AuctionCursors :
    LET query == [size |-> size, next |-> next]
        pagination == listAuctionPagination(query)
    IN  \E page \in Pages([i \in DOMAIN PageIds |-> PageAuctions(PageIds[i])], pagination.limit) :
          /\ request = None
          /\ request' = [op |-> "listAuction", query |-> query, pagination |-> pagination,
                         reply |-> page]
          /\ response' \in Replies(listAuction(query, page, loanSchemeMapper, defaultLoanSchemeMapper))
          /\ UNCHANGED <<indexerVars, defaultLoanSchemeMapper>>

\* The service reads the LoanScheme table and the default scheme the indexing
\* pipeline has left.
VaultInit ==
  /\ \E present \in SUBSET TxnIds : loanSchemeMapper = [i \in present |-> CurrentRecord(i)]
  /\ deferredLoanSchemeMapper = <<>>
  /\ loanSchemeHistoryMapper = EmptyTable
  /\ IndexerStart
  /\ defaultLoanSchemeMapper \in {None} \cup {[id |-> i] : i \in TxnIds}
  /\ request = None
  /\ response = None

VaultNext == Get \/ List \/ ListAuction

VaultSpec == VaultInit /\ [][VaultNext]_vars

\* ---------------------------------------------------------------- concurrent lookups

\* The arrays whose elements the service maps with array.map(async ...) and
\* awaits with Promise.all: the amounts of a list, the batches of a vault in
\* liquidation, the vaults of a page.
AmountLists == UNION {{t[1], t[2], t[3]} : t \in AmountTriples} \ {<<>>}

Dispatched ==
  {[kind |-> "amounts", items |-> items] : items \in AmountLists}
  \cup {[kind |-> "batches", items |-> items] : items \in BatchLists \ {<<>>}}
  \cup {[kind |-> "page", items |-> items] :
           items \in Pages([i \in DOMAIN PageIds |-> PageVaults(PageIds[i])], MaxPage)}

\* tokenAmounts.map(([_, symbol]) => symbol)
SymbolsOf(items) == [j \in DOMAIN items |-> Split(items[j])[2]]

\* The promise array.map(async ...) makes of element i.
Promised(kind, items, i, ls, defaultScheme) ==
  CASE kind = "amounts" ->
         mappedItem(Split(items[i]), batchTokenInfoBySymbol(SymbolsOf(items)))
    [] kind = "batches" ->
         LoanVaultLiquidationBatch(items[i], mapTokenAmounts(items[i].collaterals),
                                   mapTokenAmounts(<<items[i].loan>>))
    [] kind = "page" -> mapLoanVault(items[i], ls, defaultScheme)

\* A Promise.all that puts each value in the place of its arrival
FulfilInArrival(values, arrival, i, value) == [values EXCEPT ![arrival] = value]

\* Promise.all: the value of promise i is put at index i, whenever it arrives
Fulfil(values, arrival, i, value) == [values EXCEPT ![i] = value]

\* What the caller of the Promise.all does with the array it resolves to.
Assembled(kind, values) ==
  CASE kind = "amounts" -> SortAll(Ok(values))
    [] kind = "batches" -> Ok(values)
    [] kind = "page" -> listResponse(Ok(values), PageSize(MaxPage))

\* array.map(async ...) starts every lookup of the array at once.
Dispatch ==
  \E call \in Dispatched :
    /\ request = None
    /\ request' = [op |-> "Promise.all", kind |-> call.kind, items |-> call.items,
                   pending |-> DOMAIN call.items, settled |-> <<>>,
                   values |-> [i \in DOMAIN call.items |-> None]]
    /\ response' = None
    /\ UNCHANGED <<indexerVars, defaultLoanSchemeMapper>>

\* One of the pending lookups completes, in any order.  A fulfilled promise
\* gives its value; the first rejection rejects the Promise.all.
Settle ==
  /\ request # None
  /\ request.op = "Promise.all"
  /\ \E i \in request.pending :
       LET outcome == Promised(request.kind, request.items, i,
                               loanSchemeMapper, defaultLoanSchemeMapper)
       IN  /\ request' = [request EXCEPT
                            !.pending = @ \ {i},
                            !.settled = Append(@, i),
                            !.values = IF outcome.errs = {}
                                       THEN Fulfil(@, Len(request.settled) + 1, i, outcome.value)
                                       ELSE @]
           /\ IF outcome.errs # {} /\ response = None
              THEN response' \in Replies(outcome)
              ELSE UNCHANGED response
  /\ UNCHANGED <<indexerVars, defaultLoanSchemeMapper>>

\* Every lookup has been fulfilled: Promise.all resolves and the caller
\* assembles its result.
Assemble ==
  /\ request # None
  /\ request.op = "Promise.all"
  /\ request.pending = {}
  /\ response = None
  /\ response' = Reply(Assembled(request.kind, request.values), None)
  /\ UNCHANGED <<indexerVars, defaultLoanSchemeMapper, request>>

AssemblyNext == Dispatch \/ Settle \/ Assemble

AssemblySpec == VaultInit /\ [][AssemblyNext]_vars

\* ================================================================ claims

\* The tables after the index run of the k-th block of the chain.
After(k) == IF k < Len(chain) THEN chain[k + 1].before ELSE Snapshot

Position(table, id) == CHOOSE i \in DOMAIN table : table[i].id = id

Entries(table) == {table[i] : i \in DOMAIN table}

ForwardRun == forwardOnly /\ last.op = "index" /\ last.completed

\* C1 (as claimed): index(block) followed by invalidate(block, txns) on the
\* same block leaves the LoanScheme and DeferredLoanScheme tables as they
\* were before index(block) ran.
RoundTrip ==
  last.op = "invalidate" =>
    /\ loanSchemeMapper = last.before.ls
    /\ deferredLoanSchemeMapper = last.before.dls

\* What the activation boundary says of the entries e of the deferred table
\* that satisfy `covered` when the k-th block of the chain is indexed.
BoundaryAt(k, covered(_, _)) ==
  LET H == chain[k].block.height
      B == chain[k].before
      A == After(k)
  IN  \A e \in Entries(B.dls) :
        /\ e.activateAfterBlock = H + 1 =>
             /\ DeferredGet(A.dls, e.id) = e
             /\ MapperGet(A.ls, e.id) = MapperGet(B.ls, e.id)
             /\ MapperGet(A.ls, e.id) # e
        /\ (e.activateAfterBlock = H /\ covered(B.dls, e)) =>
             /\ MapperGet(A.ls, e.id) = e
             /\ e.id \notin DeferredIds(A.dls)
             /\ k < Len(chain) =>
                  /\ MapperGet(After(k + 1).ls, e.id) = e
                  /\ e.id \notin DeferredIds(After(k + 1).dls)

AnyEntry(dls, e) == TRUE

WithinScan(dls, e) == Position(dls, e.id) <= QueryLimit

\* C2 (as claimed): with blocks forward-processed in increasing height order,
\* every deferred entry with activateAfterBlock = H is still deferred after
\* index at H - 1, is promoted by index at H and is still current after index
\* at H + 1, whatever the deferred table holds.
ActivationBoundaryAnyContents ==
  ForwardRun => \A k \in DOMAIN chain : BoundaryAt(k, AnyEntry)

\* C2 (amended): the same, for the entries that are among the first
\* QueryLimit entries of the deferred table in query order when index at H runs;
\* every entry with activateAfterBlock = H is still deferred after index at H - 1.
ActivationBoundary ==
  ForwardRun => \A k \in DOMAIN chain : BoundaryAt(k, WithinScan)

\* C2 witness: an entry with activateAfterBlock = H was deferred through index
\* at H - 1, promoted at H and is current after index at H + 1.
ActivationBoundaryWitness ==
  /\ ForwardRun
  /\ Len(chain) >= 3
  /\ \E e \in Entries(chain[Len(chain) - 2].before.dls) :
       /\ e.activateAfterBlock = chain[Len(chain) - 1].block.height
       /\ DeferredGet(chain[Len(chain) - 1].before.dls, e.id) = e
       /\ MapperGet(chain[Len(chain)].before.ls, e.id) = e
       /\ MapperGet(loanSchemeMapper, e.id) = e
       /\ e.id \notin DeferredIds(deferredLoanSchemeMapper)

AllDue(dls, height) == \A e \in Entries(dls) : e.activateAfterBlock <= height

Promoted(B, A) ==
  {e \in Entries(B.dls) : e.id \notin DeferredIds(A.dls) /\ MapperGet(A.ls, e.id) = e}

\* C3: when the deferred table holds N > QueryLimit entries that are all due at
\* height H, index at H promotes exactly QueryLimit of them and leaves
\* N - QueryLimit deferred, and index at the next height promotes
\* min(QueryLimit, N - QueryLimit) of the remainder (all of it when
\* N = QueryLimit + 1).
BatchCapBoundary ==
  ForwardRun =>
    \A k \in DOMAIN chain :
      LET H == chain[k].block.height
          B == chain[k].before
          A == After(k)
          N == Len(B.dls)
      IN  (N > QueryLimit /\ AllDue(B.dls, H)) =>
            /\ Cardinality(Promoted(B, A)) = QueryLimit
            /\ Len(A.dls) = N - QueryLimit
            /\ Entries(A.dls) \subseteq Entries(B.dls)
            /\ k < Len(chain) =>
                 /\ Cardinality(Promoted(A, After(k + 1))) = Min(QueryLimit, N - QueryLimit)
                 /\ Len(After(k + 1).dls) = N - QueryLimit - Min(QueryLimit, N - QueryLimit)
                 /\ N = QueryLimit + 1 => After(k + 1).dls = <<>>

\* C3 witness: QueryLimit + 1 entries were due at one height, and the block
\* after it promoted the one that was left.
BatchCapBoundaryWitness ==
  /\ ForwardRun
  /\ Len(chain) >= 2
  /\ LET B == chain[Len(chain) - 1].before
     IN  /\ Len(B.dls) = QueryLimit + 1
         /\ AllDue(B.dls, chain[Len(chain) - 1].block.height)
         /\ Len(chain[Len(chain)].before.dls) = 1
         /\ deferredLoanSchemeMapper = <<>>
         /\ Cardinality(Promoted(B, Snapshot)) = QueryLimit + 1

\* C4 (as claimed): for every write the last hook made to the LoanScheme
\* record of an identifier, at the height of its block, the history table
\* holds a record keyed by (identifier, height).
HistoryInvariant ==
  \A i \in DOMAIN log :
    log[i].mapper = "loanSchemeMapper" =>
      <<log[i].key, last.block.height>> \in DOMAIN loanSchemeHistoryMapper

\* The transactions of the last invalidate call whose identifier had no
\* current LoanScheme record or no history record when the call began.
Unrestorable ==
  {i \in DOMAIN last.txns :
     \/ last.txns[i].identifier \notin DOMAIN pre.ls
     \/ ~ \E k \in DOMAIN loanSchemeHistoryMapper : k[1] = last.txns[i].identifier}

FirstOf(S) == CHOOSE i \in S : \A j \in S : i <= j

\* C5: invalidate fails with a NotFoundIndexerError at the first transaction
\* whose identifier has no current LoanScheme record or no history record; it
\* makes no write for that transaction nor for any later one, and the error
\* reaches the caller.  Without such a transaction it makes its two writes
\* for every transaction.
RollbackConsistency ==
  last.op = "invalidate" =>
    IF Unrestorable = {}
    THEN /\ last.err = None
         /\ Len(log) = 2 * Len(last.txns)
    ELSE LET f == FirstOf(Unrestorable)
             id == last.txns[f].identifier
         IN  /\ last.err = NotFoundIndexerError(
                   IF id \notin DOMAIN pre.ls THEN "LoanScheme" ELSE "LoanSchemeHistory", id)
             /\ Halted
             /\ Len(log) = 2 * (f - 1)
             /\ \A j \in DOMAIN log : log[j].key = last.txns[(j + 1) \div 2].identifier
             /\ \A j \in DOMAIN log : log[j].key # id

\* C5 witness: the first of two transactions cannot be restored, the second
\* could have been, and nothing was written.
RollbackConsistencyWitness ==
  /\ last.op = "invalidate"
  /\ Len(last.txns) = 2
  /\ Unrestorable = {1}
  /\ last.err # None
  /\ log = <<>>

\* C6 (as claimed): processing a block again after an index run of it that
\* was interrupted or not committed gives the tables of one uninterrupted run.
RestartIdempotence ==
  (last.op = "index" /\ last.completed /\ last.retry) =>
    LET once == index(last.block, Tables(last.before.ls, last.before.dls), NoInterrupt)
    IN  /\ loanSchemeMapper = once.ls
        /\ deferredLoanSchemeMapper = once.dls

\* ---------------------------------------------------------------- LoanVaultService

Answered == request # None /\ response # None

Succeeded == Answered /\ response.status = "ok"

LiquidatedFields ==
  {"vaultId", "loanScheme", "ownerAddress", "state", "batchCount",
   "liquidationHeight", "liquidationPenalty", "batches"}

ActiveFields ==
  {"vaultId", "loanScheme", "ownerAddress", "state", "informativeRatio",
   "collateralRatio", "collateralValue", "loanValue", "interestValue",
   "collateralAmounts", "loanAmounts", "interestAmounts"}

Liquidated(view) == DOMAIN view = LiquidatedFields /\ view.state = "IN_LIQUIDATION"

Active(view) == DOMAIN view = ActiveFields /\ view.state # "IN_LIQUIDATION"

Routed(raw, view) ==
  /\ view.vaultId = raw.vaultId
  /\ IF raw.state = "inLiquidation" THEN Liquidated(view) ELSE Active(view)

\* C7: every view get and list answer with is a Liquidated view (state
\* IN_LIQUIDATION, with batchCount, liquidationHeight, liquidationPenalty and
\* batches) exactly when the raw vault it was made from is in liquidation, and
\* an Active view (ratios, values and amount lists, another state) otherwise;
\* every view listAuction answers with is a Liquidated view.
LiquidationRouting ==
  Succeeded =>
    CASE request.op = "get" -> Routed(request.reply.vault, response.body)
      [] request.op = "list" ->
           /\ Len(response.body.data) = Len(request.reply)
           /\ \A i \in DOMAIN request.reply :
                Routed(request.reply[i], response.body.data[i])
      [] request.op = "listAuction" ->
           /\ Len(response.body.data) = Len(request.reply)
           /\ \A i \in DOMAIN request.reply : Liquidated(response.body.data[i])

\* C7 witness: list answered a page holding an active vault and a vault in
\* liquidation with a view of each kind.
LiquidationRoutingWitness ==
  /\ Succeeded
  /\ request.op = "list"
  /\ \E i, j \in DOMAIN request.reply :
       /\ request.reply[i].state = "active"
       /\ Active(response.body.data[i])
       /\ request.reply[j].state = "inLiquidation"
       /\ Liquidated(response.body.data[j])

NodeRpcError ==
  /\ Answered
  /\ request.op = "get"
  /\ request.reply.err # None
  /\ request.reply.err.exception = "RpcApiError"

\* The node reports the vault id as unknown.
ReportedUnknown ==
  request.reply.err.payload.message = VaultNotFoundMessage(request.id)

\* The node rejects an id shorter than 64 characters for its length.
RejectedShort ==
  /\ Len(request.id) < VaultIdLength
  /\ request.reply.err.payload.message = VaultIdLengthMessage(request.id)

\* C8 (as claimed): get fails with NotFound when the node reports the id as
\* unknown and when the node rejects an id shorter than 64 characters for its
\* length; it fails with BadRequest on every other RPC error of the node.
NotFoundPropagation ==
  NodeRpcError =>
    /\ response.status = "error"
    /\ response.error.exception =
         IF ReportedUnknown \/ RejectedShort
         THEN "NotFoundException" ELSE "BadRequestException"

Unresolvable(items) ==
  \E i \in DOMAIN items :
    items[i] # None /\ Split(items[i])[2] \notin DOMAIN TokenRegistry

\* An amount of the raw vault, or of one of its batches, names a symbol the
\* token registry has no metadata for.
NamesUnresolvable(raw) ==
  IF raw.state = "inLiquidation"
  THEN \E b \in DOMAIN raw.batches :
         \/ Unresolvable(raw.batches[b].collaterals)
         \/ Unresolvable(<<raw.batches[b].loan>>)
  ELSE \/ Unresolvable(raw.collateralAmounts)
       \/ Unresolvable(raw.loanAmounts)
       \/ Unresolvable(raw.interestAmounts)

RawOfRequest ==
  IF request.op = "get"
  THEN (IF request.reply.err = None THEN {request.reply.vault} ELSE {})
  ELSE {request.reply[i] : i \in DOMAIN request.reply}

\* The raw vault has no LoanScheme record, or no default scheme is registered.
SchemeMissing(raw) ==
  \/ MapperGet(loanSchemeMapper, raw.loanSchemeId) = None
  \/ defaultLoanSchemeMapper = None

IsNotFoundOfScheme(raw, error) ==
  /\ error.exception = "NotFoundException"
  /\ MapperGet(loanSchemeMapper, raw.loanSchemeId) = None =>
       error.message = "unable to find loan scheme"

\* get of a vault whose scheme or default scheme is missing
MissingSchemeGet ==
  (/\ Answered
   /\ request.op = "get"
   /\ request.reply.err = None
   /\ SchemeMissing(request.reply.vault)) =>
    /\ response.status = "error"
    /\ IsNotFoundOfScheme(request.reply.vault, response.error)

MissingSchemeList ==
  (/\ Answered
   /\ request.op = "list"
   /\ \E i \in DOMAIN request.reply : SchemeMissing(request.reply[i])
   /\ \A i \in DOMAIN request.reply : ~NamesUnresolvable(request.reply[i])) =>
    /\ response.status = "error"
    /\ response.error.exception = "NotFoundException"

\* C9 (as claimed): when a vault the node returns has no record in the
\* LoanScheme table, or no default scheme is registered, the caller of get and
\* the caller of list (of a page whose every token resolves) receive a
\* NotFound failure ('unable to find loan scheme' for the missing scheme).
MissingSchemeNotFound == MissingSchemeGet /\ MissingSchemeList

\* C10 (as claimed): when an amount of a vault the node returns names a symbol
\* without token metadata (the scheme and the default scheme of every vault
\* being found), get, list and listAuction fail and the caller receives a
\* Conflict failure.
UnresolvableTokenConflict ==
  (/\ Answered
   /\ \E raw \in RawOfRequest : NamesUnresolvable(raw)
   /\ \A raw \in RawOfRequest : ~SchemeMissing(raw)) =>
    /\ response.status = "error"
    /\ response.error.exception = "ConflictException"

\* The amount lists of a view with the raw lists they were mapped from.
MappedLists(raw, view) ==
  IF raw.state = "inLiquidation"
  THEN {<<raw.batches[b].collaterals, view.batches[b].collaterals>> : b \in DOMAIN raw.batches}
  ELSE {<<raw.collateralAmounts, view.collateralAmounts>>,
        <<raw.loanAmounts, view.loanAmounts>>,
        <<raw.interestAmounts, view.interestAmounts>>}

NumericId(item) == ParseInt(item.id).value

AscendingById(mapped) ==
  \A i, j \in DOMAIN mapped : i < j => NumericId(mapped[i]) <= NumericId(mapped[j])

\* every raw entry is mapped once: as many entries, and the same amounts of
\* the same symbols
PermutationOf(items, mapped) ==
  /\ Len(mapped) = Len(items)
  /\ \A i \in DOMAIN items :
       Cardinality({k \in DOMAIN items : items[k] = items[i]})
         = Cardinality({k \in DOMAIN mapped :
                          Amount(mapped[k].amount, mapped[k].symbol) = items[i]})

\* C11 (as claimed): every amount list mapTokenAmounts returns to get holds
\* the mapped entries of its input, each once, in ascending order of the
\* numeric value of the token id.
TokenAmountOrdering ==
  (Succeeded /\ request.op = "get") =>
    \A pair \in MappedLists(request.reply.vault, response.body) :
      /\ PermutationOf(pair[1], pair[2])
      /\ AscendingById(pair[2])

\* The views of a successful answer, each with the raw vault it was made from.
ViewsOfResponse ==
  IF request.op = "get"
  THEN {<<request.reply.vault, response.body>>}
  ELSE {<<request.reply[i], response.body.data[i]>> : i \in DOMAIN request.reply}

\* C12: in every view get, list and listAuction answer with, loanScheme is
\* the LoanScheme record of the vault's loanSchemeId, and loanScheme.default
\* is true exactly when the id of that record is the id of the registered
\* default scheme.
DefaultSchemeFlag ==
  Succeeded =>
    \A pair \in ViewsOfResponse :
      LET resolved == MapperGet(loanSchemeMapper, pair[1].loanSchemeId)
          shown == pair[2].loanScheme
      IN  /\ shown.default = (resolved.id = defaultLoanSchemeMapper.id)
          /\ \A k \in DOMAIN resolved : shown[k] = resolved[k]

\* C12 witness: one page of list shows an active vault of the default scheme
\* and a vault in liquidation of another scheme.
DefaultSchemeFlagWitness ==
  /\ Succeeded
  /\ request.op = "list"
  /\ \E i, j \in DOMAIN request.reply :
       /\ request.reply[i].state = "active"
       /\ request.reply[i].loanSchemeId = defaultLoanSchemeMapper.id
       /\ response.body.data[i].loanScheme.default
       /\ request.reply[j].state = "inLiquidation"
       /\ request.reply[j].loanSchemeId # defaultLoanSchemeMapper.id
       /\ ~response.body.data[j].loanScheme.default

\* The characters of the cursor after the first 64.
CursorRemainder(next) == SubSeq(next.text, VaultIdLength + 1, Len(next.text))

\* The height the claim gives a cursor: the decimal value of the remainder, 0
\* when the remainder is empty or no integer.
ClaimedHeight(next) ==
  IF ParseInt(CursorRemainder(next)).nan
  THEN [nan |-> FALSE, value |-> 0]
  ELSE ParseInt(CursorRemainder(next))

\* C13 (as claimed): listAuction sends the node a start position whose
\* vaultId is the first 64 characters of the cursor and whose height is the
\* decimal value of the remaining characters, 0 when the remainder is empty or
\* not an integer; without a cursor it sends no start position.
AuctionCursorParsing ==
  (request # None /\ request.op = "listAuction") =>
    IF request.query.next = None
    THEN "start" \notin DOMAIN request.pagination
    ELSE /\ "start" \in DOMAIN request.pagination
         /\ request.pagination.start.vaultId
              = SubSeq(request.query.next.text, 1,
                       Min(VaultIdLength, Len(request.query.next.text)))
         /\ request.pagination.start.height = ClaimedHeight(request.query.next)

\* get was handed a vault in liquidation, its schemes found and its symbols
\* resolvable, one of whose batches has no loan.
LoanlessBatchServed ==
  /\ Answered
  /\ request.op = "get"
  /\ request.reply.err = None
  /\ request.reply.vault.state = "inLiquidation"
  /\ ~SchemeMissing(request.reply.vault)
  /\ ~NamesUnresolvable(request.reply.vault)
  /\ \E b \in DOMAIN request.reply.vault.batches :
       request.reply.vault.batches[b].loan = None

\* C14 (as claimed): a batch the node supplies without a loan does not make
\* mapLiquidationBatches fail; the batch is returned with its index, its
\* mapped collaterals and an absent loan, and the other batches of the vault
\* are mapped as usual.
BatchWithoutLoan ==
  LoanlessBatchServed =>
    /\ response.status = "ok"
    /\ Len(response.body.batches) = Len(request.reply.vault.batches)
    /\ \A b \in DOMAIN request.reply.vault.batches :
         LET raw == request.reply.vault.batches[b]
             mapped == response.body.batches[b]
         IN  /\ mapped.index = raw.index
             /\ PermutationOf(raw.collaterals, mapped.collaterals)
             /\ IF raw.loan = None THEN mapped.loan = None
                ELSE Amount(mapped.loan.amount, mapped.loan.symbol) = raw.loan

Listing == request # None /\ request.op \in {"list", "listAuction"}

\* Every vault of the page can be mapped: schemes found, symbols resolvable,
\* a loan in every batch.
PageMappable ==
  \A raw \in RawOfRequest :
    /\ ~SchemeMissing(raw)
    /\ ~NamesUnresolvable(raw)
    /\ raw.state = "inLiquidation" =>
         \A b \in DOMAIN raw.batches : raw.batches[b].loan # None

\* C15: list and listAuction send the node the limit min(size, 30), which
\* never exceeds 30, and a size above 30 makes neither fail.
PageSizeClamp ==
  Listing =>
    /\ request.pagination.limit = Min(request.query.size, 30)
    /\ request.pagination.limit <= 30
    /\ (request.query.size > 30 /\ response # None /\ PageMappable) =>
         response.status = "ok"

\* C15 witness: list and listAuction were asked for 31 vaults, sent the limit
\* 30 and answered with a page.
PageSizeClampWitness ==
  /\ Listing
  /\ request.query.size = 31
  /\ request.pagination.limit = 30
  /\ response # None
  /\ response.status = "ok"
  /\ Len(response.body.data) = MaxPage

\* ---------------------------------------------------------------- indexer, continued

InvalidateSucceeded == last.op = "invalidate" /\ last.err = None /\ last.txns # <<>>

RolledBackIds == {last.txns[i].identifier : i \in DOMAIN last.txns}

\* The most recent LoanSchemeHistory record of an identifier.
LatestHistory(id) == HistoryQuery(loanSchemeHistoryMapper, id, 1)[1]

\* C16 (as claimed): after invalidate succeeds for a transaction with
\* identifier X, the DeferredLoanScheme entry of X is the most recent
\* LoanSchemeHistory record of X, and the LoanScheme record of X is the record
\* that was current for X before the block took effect.
RollbackRestoration ==
  InvalidateSucceeded =>
    \A id \in RolledBackIds :
      /\ DeferredGet(deferredLoanSchemeMapper, id) = LatestHistory(id)
      /\ id \in DOMAIN last.before.ls =>
           MapperGet(loanSchemeMapper, id) = MapperGet(last.before.ls, id)

TimesRolledBack(id) == Cardinality({i \in DOMAIN last.txns : last.txns[i].identifier = id})

\* C16 (amended): after invalidate succeeds, the LoanScheme record of every
\* identifier X its transactions name is the most recent LoanSchemeHistory
\* record of X, and the DeferredLoanScheme entry of X is the LoanScheme record
\* that was current for X when invalidate began (when two transactions name X,
\* the history record that the first of them made current).
RollbackRestorationOfCurrent ==
  InvalidateSucceeded =>
    \A id \in RolledBackIds :
      /\ MapperGet(loanSchemeMapper, id) = LatestHistory(id)
      /\ DeferredGet(deferredLoanSchemeMapper, id) =
           IF TimesRolledBack(id) = 1 THEN MapperGet(pre.ls, id) ELSE LatestHistory(id)

\* C16 witness: invalidate succeeded for a scheme that the index run of the
\* block had promoted; the promoted record is deferred again and the history
\* record is current.
RollbackRestorationWitness ==
  /\ InvalidateSucceeded
  /\ \E id \in RolledBackIds :
       /\ TimesRolledBack(id) = 1
       /\ DeferredGet(last.before.dls, id) # None
       /\ MapperGet(pre.ls, id) = DeferredGet(last.before.dls, id)
       /\ DeferredGet(deferredLoanSchemeMapper, id) = DeferredGet(last.before.dls, id)
       /\ MapperGet(loanSchemeMapper, id) = LatestHistory(id)
       /\ MapperGet(loanSchemeMapper, id) # MapperGet(pre.ls, id)

IndexRan == last.op = "index" /\ last.completed /\ ~last.retry

\* The positions of the table at the entry of the last hook that index scans,
\* and those of them that are due at the height of the block.
ScannedPositions == {i \in DOMAIN pre.dls : i <= QueryLimit}

DuePositions ==
  {i \in ScannedPositions : pre.dls[i].activateAfterBlock <= last.block.height}

DueIds == {pre.dls[i].id : i \in DuePositions}

\* C17: index at height h writes exactly the entries among the first 100 of
\* the deferred table (in query order) whose activateAfterBlock is at most h
\* to the LoanScheme table under their identifier and deletes them from the
\* deferred table; every other deferred entry stays deferred, unchanged and
\* in order, and every LoanScheme record of another identifier is unchanged.
\* The hook reads the height of the block only.
ForwardStepFrame ==
  IndexRan =>
    /\ \A i \in DuePositions :
         /\ MapperGet(loanSchemeMapper, pre.dls[i].id) = pre.dls[i]
         /\ DeferredGet(deferredLoanSchemeMapper, pre.dls[i].id) = None
    /\ deferredLoanSchemeMapper
         = SelectSeq(pre.dls, LAMBDA e : e.id \notin DueIds)
    /\ DOMAIN loanSchemeMapper = DOMAIN pre.ls \cup DueIds
    /\ \A id \in DOMAIN pre.ls \ DueIds : loanSchemeMapper[id] = pre.ls[id]
    /\ \A i \in DOMAIN log : log[i].key \in DueIds
    /\ Len(log) = 2 * Cardinality(DuePositions)

\* C17 witness: an index run overwrote the LoanScheme record of a scheme that
\* was due and left a scanned entry that was not due deferred.
ForwardStepFrameWitness ==
  /\ IndexRan
  /\ \E i, j \in ScannedPositions :
       /\ i \in DuePositions
       /\ pre.dls[i].id \in DOMAIN pre.ls
       /\ pre.ls[pre.dls[i].id] # pre.dls[i]
       /\ loanSchemeMapper[pre.dls[i].id] = pre.dls[i]
       /\ j \notin DuePositions
       /\ DeferredGet(deferredLoanSchemeMapper, pre.dls[j].id) = pre.dls[j]

\* The deferred table before the first block was processed.
InitialDeferred == IF chain = <<>> THEN deferredLoanSchemeMapper ELSE chain[1].before.dls

\* No entry that is due at the height reached is still deferred, and the
\* LoanScheme table holds every entry that was deferred and has become due.
BacklogCleared ==
  /\ \A i \in DOMAIN deferredLoanSchemeMapper :
       deferredLoanSchemeMapper[i].activateAfterBlock > tip
  /\ \A i \in DOMAIN InitialDeferred :
       InitialDeferred[i].activateAfterBlock <= tip =>
         MapperGet(loanSchemeMapper, InitialDeferred[i].id) = InitialDeferred[i]

\* C18: when index runs for every block in increasing height order, with no
\* rollback and no new deferred entry, every deferred entry that is due is
\* eventually written to the LoanScheme table and removed from the deferred
\* table, also when more entries than the scan limit are pending and entries
\* not yet due precede it in query order.
EventualPromotion == <>[]BacklogCleared

\* C18 witness: an entry due at the first block stood behind 100 entries that
\* were not due until later; it has been promoted and nothing is deferred.
EventualPromotionWitness ==
  /\ Len(InitialDeferred) > QueryLimit
  /\ InitialDeferred[1].activateAfterBlock > MaxHeight
  /\ InitialDeferred[QueryLimit + 1].activateAfterBlock = BaseHeight + 1
  /\ deferredLoanSchemeMapper = <<>>
  /\ MapperGet(loanSchemeMapper, InitialDeferred[QueryLimit + 1].id)
       = InitialDeferred[QueryLimit + 1]

AssemblyDone ==
  /\ request # None
  /\ request.op = "Promise.all"
  /\ response # None
  /\ response.status = "ok"

\* The view the service assembles of the array when its lookups complete one
\* after the other, in the order of the array.
InArrayOrder ==
  CASE request.kind = "amounts" -> mapTokenAmounts(request.items).value
    [] request.kind = "batches" -> mapLiquidationBatches(request.items).value
    [] request.kind = "page" ->
         list([size |-> MaxPage, next |-> None], request.items,
              loanSchemeMapper, defaultLoanSchemeMapper).value

\* C19: the lookups of an array are started together, and whatever the order
\* in which they complete the assembled view is the one of the lookups
\* completing in array order: batches in the order the node gave them, the
\* vaults of a page in the node's order, each amount list in one fixed order.
DeterministicAssembly ==
  /\ (request # None /\ request.op = "Promise.all") =>
       request.pending \cup {request.settled[k] : k \in DOMAIN request.settled}
         = DOMAIN request.items
  /\ AssemblyDone =>
       /\ response.body = InArrayOrder
       /\ request.kind = "batches" =>
            \A b \in DOMAIN request.items :
              response.body[b].index = request.items[b].index
       /\ request.kind = "page" =>
            \A v \in DOMAIN request.items :
              response.body.data[v].vaultId = request.items[v].vaultId

\* C19 witness: the lookups of two batches completed last first, and the
\* batches were assembled in the order the node gave them.
DeterministicAssemblyWitness ==
  /\ AssemblyDone
  /\ request.kind = "batches"
  /\ request.settled = <<2, 1>>
  /\ response.body[1].index = 0
  /\ response.body[2].index = 1

\* ---------------------------------------------------------------- failed rollback

InvalidateFailed == last.op = "invalidate" /\ last.err # None /\ last.txns # <<>>

\* C20 (as claimed): whenever invalidate fails with a NotFoundIndexerError on
\* any transaction of its list, the LoanScheme and DeferredLoanScheme tables
\* are exactly as they were before the invalidate call.
NoPartialRollback ==
  InvalidateFailed =>
    /\ loanSchemeMapper = pre.ls
    /\ deferredLoanSchemeMapper = pre.dls

====
